---- MODULE Spec2Model ----
(***************************************************************************)
(* Model of src/example_extension.c: the native extension function         *)
(* compute_intensive(n), which parses one C int from the argument tuple    *)
(* and accumulates sin(i)*cos(j) over the n*n pairs in a double.           *)
(*                                                                         *)
(* Doubles are IEEE-754 binary64 values, round-to-nearest-even, held as    *)
(* sign / 53-bit significand / exponent; the significand is a little-      *)
(* endian sequence of 14-bit limbs because TLC integers are 32 bits wide.  *)
(* Every arithmetic operation rounds once, as the C abstract machine       *)
(* evaluates `result += sin(i) * cos(j)`.                                  *)
(***************************************************************************)
EXTENDS Integers, Sequences, FiniteSets

(***************************************************************************)
(* Bounds of the model.                                                    *)
(***************************************************************************)
\* The native int is modelled with a narrow range INT_MIN..INT_MAX
\* (INT_MIN = -INT_MAX - 1, two's complement) so that n = INT_MAX is explored.
INT_MAX == 7
\* Largest n passed when several calls are made one after another.
MaxSeqN == 3
\* Number of successive calls of one thread in SpecCalls.
MaxCalls == 3
\* Largest n passed by concurrently running calls.
MaxConcN == 2
\* Number of concurrently running calls in SpecConc.
NThreads == 2

INT_MIN == -INT_MAX - 1

(***************************************************************************)
(* Natural numbers of arbitrary size: little-endian limbs, no high zeros.  *)
(***************************************************************************)
LimbBits == 14
Base == 16384

Limbs == Seq(Nat)

\* The operations are functions, so that an argument is evaluated once,
\* before the body.
Pow2[k \in Nat] == IF k = 0 THEN 1 ELSE 2 * Pow2[k - 1]

Hd(a) == IF a = <<>> THEN 0 ELSE Head(a)
Tl(a) == IF a = <<>> THEN <<>> ELSE Tail(a)

BNorm[a \in Limbs] ==
  IF a = <<>> THEN <<>>
  ELSE IF a[Len(a)] = 0 THEN BNorm[SubSeq(a, 1, Len(a) - 1)] ELSE a

BAddC[a \in Limbs, b \in Limbs, c \in Nat] ==
  IF a = <<>> /\ b = <<>> THEN (IF c = 0 THEN <<>> ELSE <<c>>)
  ELSE <<(Hd(a) + Hd(b) + c) % Base>>
         \o BAddC[Tl(a), Tl(b), (Hd(a) + Hd(b) + c) \div Base]

BAdd[a \in Limbs, b \in Limbs] == BAddC[a, b, 0]

\* a - b - brw for a >= b + brw
BSubB[a \in Limbs, b \in Limbs, brw \in Nat] ==
  IF a = <<>> THEN <<>>
  ELSE IF Hd(a) - Hd(b) - brw < 0
    THEN <<Hd(a) - Hd(b) - brw + Base>> \o BSubB[Tl(a), Tl(b), 1]
    ELSE <<Hd(a) - Hd(b) - brw>> \o BSubB[Tl(a), Tl(b), 0]

BSub[a \in Limbs, b \in Limbs] == BNorm[BSubB[a, b, 0]]

\* -1, 0, 1 as a < b, a = b, a > b
BCmp[a \in Limbs, b \in Limbs] ==
  IF Len(a) # Len(b) THEN (IF Len(a) < Len(b) THEN -1 ELSE 1)
  ELSE IF a = <<>> THEN 0
  ELSE IF a[Len(a)] # b[Len(b)] THEN (IF a[Len(a)] < b[Len(b)] THEN -1 ELSE 1)
  ELSE BCmp[SubSeq(a, 1, Len(a) - 1), SubSeq(b, 1, Len(b) - 1)]

\* a * k + c for one limb k
BMulSmall[a \in Limbs, k \in Nat, c \in Nat] ==
  IF a = <<>> THEN (IF c = 0 THEN <<>> ELSE <<c>>)
  ELSE <<(Head(a) * k + c) % Base>>
         \o BMulSmall[Tail(a), k, (Head(a) * k + c) \div Base]

\* a * Base
BShiftLimb[a \in Limbs] == IF a = <<>> THEN <<>> ELSE <<0>> \o a

BMul[a \in Limbs, b \in Limbs] ==
  IF a = <<>> \/ b = <<>> THEN <<>>
  ELSE BAdd[BNorm[BMulSmall[a, Head(b), 0]], BShiftLimb[BMul[a, Tail(b)]]]

\* a * 2^k
BShl[a \in Limbs, k \in Nat] ==
  IF a = <<>> THEN <<>>
  ELSE [x \in 1..(k \div LimbBits) |-> 0] \o BMulSmall[a, Pow2[k % LimbBits], 0]

\* a \div 2^k
BShr[a \in Limbs, k \in Nat] ==
  LET q == k \div LimbBits
      r == k % LimbBits
      d == IF q >= Len(a) THEN <<>> ELSE SubSeq(a, q + 1, Len(a))
  IN  BNorm[[x \in 1..Len(d) |->
               (d[x] \div Pow2[r])
               + (IF x < Len(d) THEN (d[x + 1] % Pow2[r]) * Pow2[LimbBits - r] ELSE 0)]]

BitLenSmall[x \in Nat] == IF x = 0 THEN 0 ELSE 1 + BitLenSmall[x \div 2]

BBitLen[a \in Limbs] ==
  IF a = <<>> THEN 0 ELSE LimbBits * (Len(a) - 1) + BitLenSmall[a[Len(a)]]

\* bit k of a
BBit[a \in Limbs, k \in Nat] ==
  IF k \div LimbBits >= Len(a) THEN 0
  ELSE (a[(k \div LimbBits) + 1] \div Pow2[k % LimbBits]) % 2

\* a mod 2^k = 0
BLowZero[a \in Limbs, k \in Nat] == BShl[BShr[a, k], k] = a

(***************************************************************************)
(* IEEE-754 binary64, round to nearest, ties to even.  A double is         *)
(* (-1)^s * m * 2^e with m of exactly MantBits bits, or m = <<>> for zero. *)
(* The values met here stay in the normal range: no infinity, NaN or       *)
(* subnormal arises from sums of at most INT_MAX^2 products in [-1, 1].    *)
(***************************************************************************)
MantBits == 53

Double == [s : {0, 1}, m : Limbs, e : Int]

Zero(sgn) == [s |-> sgn, m |-> <<>>, e |-> 0]

\* q or q + 1: the significand q rounded by the k bits of mag shifted out
RoundUp[mag \in Limbs, q \in Limbs, k \in Nat] ==
  IF BBit[mag, k - 1] = 1 /\ (~BLowZero[mag, k - 1] \/ BBit[q, 0] = 1)
    THEN BAdd[q, <<1>>]
    ELSE q

\* significand q of at most MantBits + 1 bits at exponent ex
Renorm[sgn \in {0, 1}, q \in Limbs, ex \in Int] ==
  IF BBitLen[q] > MantBits
    THEN [s |-> sgn, m |-> BShr[q, 1], e |-> ex + 1]
    ELSE [s |-> sgn, m |-> q, e |-> ex]

\* mag of len bits
RoundBits[sgn \in {0, 1}, mag \in Limbs, ex \in Int, len \in Nat] ==
  IF len = 0 THEN Zero(sgn)
  ELSE IF len <= MantBits
    THEN [s |-> sgn, m |-> BShl[mag, MantBits - len], e |-> ex - (MantBits - len)]
  ELSE Renorm[sgn, RoundUp[mag, BShr[mag, len - MantBits], len - MantBits],
              ex + (len - MantBits)]

\* the double nearest to the exact value (-1)^sgn * mag * 2^ex
RoundToDouble[sgn \in {0, 1}, mag \in Limbs, ex \in Int] ==
  RoundBits[sgn, mag, ex, BBitLen[mag]]

\* a * b, rounded once
DMul[a \in Double, b \in Double] ==
  IF a.m = <<>> \/ b.m = <<>> THEN Zero((a.s + b.s) % 2)
  ELSE RoundToDouble[(a.s + b.s) % 2, BMul[a.m, b.m], a.e + b.e]

\* sa * am * 2^ex + sb * bm * 2^ex for nonzero am, bm, rounded once
AddAligned[sa \in {0, 1}, am \in Limbs, sb \in {0, 1}, bm \in Limbs, ex \in Int] ==
  IF sa = sb THEN RoundToDouble[sa, BAdd[am, bm], ex]
  ELSE IF BCmp[am, bm] = 0 THEN Zero(0)
  ELSE IF BCmp[am, bm] > 0 THEN RoundToDouble[sa, BSub[am, bm], ex]
  ELSE RoundToDouble[sb, BSub[bm, am], ex]

Min(x, y) == IF x < y THEN x ELSE y

\* a + b, rounded once
DAdd[a \in Double, b \in Double] ==
  IF a.m = <<>> /\ b.m = <<>> THEN Zero(IF a.s = 1 /\ b.s = 1 THEN 1 ELSE 0)
  ELSE IF a.m = <<>> THEN b
  ELSE IF b.m = <<>> THEN a
  ELSE AddAligned[a.s, BShl[a.m, a.e - Min(a.e, b.e)],
                  b.s, BShl[b.m, b.e - Min(a.e, b.e)], Min(a.e, b.e)]

DNeg(a) == [a EXCEPT !.s = 1 - a.s]

(***************************************************************************)
(* libm: sin(k) and cos(k) as binary64 for the integers k the model        *)
(* reaches (values of the platform's libm).                                *)
(***************************************************************************)
SinTab ==
  <<
     [s |-> 0, m |-> <<>>, e |-> 0],
     [s |-> 0, m |-> <<3310, 15396, 5448, 1723>>, e |-> -53],
     [s |-> 0, m |-> <<13382, 11078, 3950, 1862>>, e |-> -53],
     [s |-> 0, m |-> <<5467, 14043, 902, 1156>>, e |-> -55],
     [s |-> 1, m |-> <<7854, 14192, 15261, 1549>>, e |-> -53],
     [s |-> 1, m |-> <<6451, 6018, 14367, 1963>>, e |-> -53],
     [s |-> 1, m |-> <<8896, 10946, 7960, 1144>>, e |-> -54],
     [s |-> 0, m |-> <<2568, 2484, 8332, 1345>>, e |-> -53],
     [s |-> 0, m |-> <<3963, 163, 3370, 2026>>, e |-> -53],
     [s |-> 0, m |-> <<12177, 6192, 611, 1688>>, e |-> -54],
     [s |-> 1, m |-> <<3922, 6093, 2543, 1114>>, e |-> -53]
  >>
CosTab ==
  <<
     [s |-> 0, m |-> <<0, 0, 0, 1024>>, e |-> -52],
     [s |-> 0, m |-> <<1676, 16084, 8832, 1106>>, e |-> -53],
     [s |-> 1, m |-> <<12805, 7501, 8805, 1704>>, e |-> -54],
     [s |-> 1, m |-> <<9682, 14871, 8267, 2027>>, e |-> -53],
     [s |-> 1, m |-> <<9409, 7020, 10848, 1338>>, e |-> -53],
     [s |-> 0, m |-> <<2777, 429, 14423, 1161>>, e |-> -54],
     [s |-> 0, m |-> <<8949, 9696, 7024, 1966>>, e |-> -53],
     [s |-> 0, m |-> <<8215, 15204, 16249, 1543>>, e |-> -53],
     [s |-> 1, m |-> <<12180, 15756, 15339, 1191>>, e |-> -55],
     [s |-> 1, m |-> <<6507, 6808, 16298, 1865>>, e |-> -53],
     [s |-> 1, m |-> <<11039, 9265, 6856, 1718>>, e |-> -53]
  >>

\* (double)x of an int x is exact; libm's sin is odd and its cos even
sin(x) == IF x < 0 THEN DNeg(SinTab[1 - x]) ELSE SinTab[x + 1]
cos(x) == IF x < 0 THEN CosTab[1 - x] ELSE CosTab[x + 1]

(***************************************************************************)
(* The host's objects and argument parsing.                                *)
(***************************************************************************)
Threads == 1..NThreads

\* a local variable that holds no value yet
Uninit == <<>>
\* an int variable holding v, and the value it holds
Some(v) == <<v>>
Val(x) == x[1]
\* the C null pointer returned to the host
NULL == [ob_type |-> "NULL"]

PyLong(v) == [ob_type |-> "int", ob_ival |-> v]
PyUnicode == [ob_type |-> "str"]
PyFloat(d) == [ob_type |-> "float", ob_fval |-> d]

\* PyFloat_FromDouble(d): a new float object holding d
PyFloat_FromDouble(d) == PyFloat(d)

\* Host integers are unbounded: the ones tried reach one past each end of the
\* C int range.
HostInts == (INT_MIN - 1)..(INT_MAX + 1)

\* the argument tuples a caller can pass
ArgTuples ==
  {<<PyLong(v)>> : v \in HostInts}
    \cup {<<>>, <<PyUnicode>>, <<PyFloat(cos(0))>>, <<PyLong(1), PyLong(2)>>}

\* PyArg_ParseTuple(args, "i", &n) without a range check (value wraps to int)
PyArg_ParseTuple_NoRange(a) ==
  IF Len(a) # 1 THEN [ok |-> FALSE, exc |-> "TypeError"]
  ELSE IF a[1].ob_type # "int" THEN [ok |-> FALSE, exc |-> "TypeError"]
  ELSE [ok |-> TRUE,
        val |-> ((a[1].ob_ival - INT_MIN) % (2 * (INT_MAX + 1))) + INT_MIN]

\* PyArg_ParseTuple(args, "i", &n): exactly one argument, an integer object
\* that fits a C int; otherwise an exception is set and 0 is returned.
PyArg_ParseTuple(a) ==
  IF Len(a) # 1 THEN [ok |-> FALSE, exc |-> "TypeError"]
  ELSE IF a[1].ob_type # "int" THEN [ok |-> FALSE, exc |-> "TypeError"]
  ELSE IF a[1].ob_ival < INT_MIN \/ a[1].ob_ival > INT_MAX
    THEN [ok |-> FALSE, exc |-> "OverflowError"]
  ELSE [ok |-> TRUE, val |-> a[1].ob_ival]

(***************************************************************************)
(* State: one activation of compute_intensive per thread.                  *)
(***************************************************************************)
VARIABLES
  pc,      \* pc[t]: position of thread t's call
  args,    \* args[t]: the argument tuple of the call
  n,       \* n[t]: int n
  i,       \* i[t]: int i
  j,       \* j[t]: int j
  result,  \* result[t]: double result
  ret,     \* ret[t]: the returned PyObject*, NULL on error
  exc,     \* exc[t]: the thread's pending exception
  terms,   \* terms[t]: history of the (i, j) whose term was added by the call
  ub,      \* a signed increment has overflowed (undefined behaviour)
  calls,   \* calls[t]: number of calls started by thread t
  log      \* log[t]: history of the finished calls of thread t

vars == <<pc, args, n, i, j, result, ret, exc, terms, ub, calls, log>>

Upd(f, t, v) == [f EXCEPT ![t] = v]

Init ==
  /\ pc = [t \in Threads |-> "idle"]
  /\ args = [t \in Threads |-> <<>>]
  /\ n = [t \in Threads |-> Uninit]
  /\ i = [t \in Threads |-> Uninit]
  /\ j = [t \in Threads |-> Uninit]
  /\ result = [t \in Threads |-> Uninit]
  /\ ret = [t \in Threads |-> Uninit]
  /\ exc = [t \in Threads |-> "none"]
  /\ terms = [t \in Threads |-> <<>>]
  /\ ub = FALSE
  /\ calls = [t \in Threads |-> 0]
  /\ log = [t \in Threads |-> <<>>]

\* The host calls compute_intensive(self, args) on thread t: a fresh
\* activation whose locals hold nothing yet.
Call(t, a) ==
  /\ pc[t] = "idle"
  /\ pc' = Upd(pc, t, "parse")
  /\ args' = Upd(args, t, a)
  /\ n' = Upd(n, t, Uninit)
  /\ i' = Upd(i, t, Uninit)
  /\ j' = Upd(j, t, Uninit)
  /\ result' = Upd(result, t, Uninit)
  /\ ret' = Upd(ret, t, Uninit)
  /\ exc' = Upd(exc, t, "none")
  /\ terms' = Upd(terms, t, <<>>)
  /\ calls' = Upd(calls, t, calls[t] + 1)
  /\ UNCHANGED <<ub, log>>

\* line 8-10 with `double result = 0.0` hoisted above the parse
ParseAfterDecl(t) ==
  /\ pc[t] = "parse"
  /\ LET r == PyArg_ParseTuple(args[t])
     IN  IF r.ok
           THEN /\ n' = Upd(n, t, Some(r.val))
                /\ pc' = Upd(pc, t, "decl_result")
                /\ UNCHANGED <<ret, exc>>
           ELSE /\ ret' = Upd(ret, t, NULL)
                /\ exc' = Upd(exc, t, r.exc)
                /\ pc' = Upd(pc, t, "done")
                /\ UNCHANGED n
  /\ result' = Upd(result, t, Zero(0))
  /\ UNCHANGED <<args, i, j, terms, ub, calls, log>>

\* lines 8-10: if (!PyArg_ParseTuple(args, "i", &n)) return NULL;
Parse(t) ==
  /\ pc[t] = "parse"
  /\ LET r == PyArg_ParseTuple(args[t])
     IN  IF r.ok
           THEN /\ n' = Upd(n, t, Some(r.val))
                /\ pc' = Upd(pc, t, "decl_result")
                /\ UNCHANGED <<ret, exc>>
           ELSE /\ ret' = Upd(ret, t, NULL)
                /\ exc' = Upd(exc, t, r.exc)
                /\ pc' = Upd(pc, t, "done")
                /\ UNCHANGED n
  /\ UNCHANGED <<args, i, j, result, terms, ub, calls, log>>

\* the double returned by the thread's previous call, 0.0 if there is none
LastResult(t) ==
  IF log[t] # <<>> /\ log[t][Len(log[t])].exc = "none"
    THEN log[t][Len(log[t])].ret.ob_fval
    ELSE Zero(0)

\* `static double result = 0.0;`: the accumulator outlives the call
DeclResultStatic(t) ==
  /\ pc[t] = "decl_result"
  /\ result' = Upd(result, t, LastResult(t))
  /\ pc' = Upd(pc, t, "outer_init")
  /\ UNCHANGED <<args, n, i, j, ret, exc, terms, ub, calls, log>>

\* line 12: double result = 0.0;
DeclResult(t) ==
  /\ pc[t] = "decl_result"
  /\ result' = Upd(result, t, Zero(0))
  /\ pc' = Upd(pc, t, "outer_init")
  /\ UNCHANGED <<args, n, i, j, ret, exc, terms, ub, calls, log>>

\* line 13: int i = 0
OuterInit(t) ==
  /\ pc[t] = "outer_init"
  /\ i' = Upd(i, t, Some(0))
  /\ pc' = Upd(pc, t, "outer_test")
  /\ UNCHANGED <<args, n, j, result, ret, exc, terms, ub, calls, log>>

\* i <= n
OuterCondLe(iv, nv) == iv <= nv

\* line 13: i < n
OuterCond(iv, nv) == iv < nv

OuterTest(t) ==
  /\ pc[t] = "outer_test"
  /\ pc' = Upd(pc, t, IF OuterCond(Val(i[t]), Val(n[t])) THEN "inner_init" ELSE "return")
  /\ UNCHANGED <<args, n, i, j, result, ret, exc, terms, ub, calls, log>>

\* int j = 1
InnerInitOne(t) ==
  /\ pc[t] = "inner_init"
  /\ j' = Upd(j, t, Some(1))
  /\ pc' = Upd(pc, t, "inner_test")
  /\ UNCHANGED <<args, n, i, result, ret, exc, terms, ub, calls, log>>

\* line 14: int j = 0
InnerInit(t) ==
  /\ pc[t] = "inner_init"
  /\ j' = Upd(j, t, Some(0))
  /\ pc' = Upd(pc, t, "inner_test")
  /\ UNCHANGED <<args, n, i, result, ret, exc, terms, ub, calls, log>>

\* j <= n
InnerCondLe(jv, nv) == jv <= nv

\* line 14: j < n
InnerCond(jv, nv) == jv < nv

InnerTest(t) ==
  /\ pc[t] = "inner_test"
  /\ pc' = Upd(pc, t, IF InnerCond(Val(j[t]), Val(n[t])) THEN "body" ELSE "outer_inc")
  /\ UNCHANGED <<args, n, i, j, result, ret, exc, terms, ub, calls, log>>

\* sin(j) * cos(i)
TermSwapped(iv, jv) == DMul[sin(jv), cos(iv)]

\* cos(i) * cos(j)
TermCosCos(iv, jv) == DMul[cos(iv), cos(jv)]

\* line 15: sin(i) * cos(j), the int operands converted to double
Term(iv, jv) == DMul[sin(iv), cos(jv)]

\* the accumulator is one object shared by all activations
BodyShared(t) ==
  /\ pc[t] = "body"
  /\ result' = [u \in Threads |->
                  IF result[u] = Uninit THEN result[u]
                  ELSE DAdd[result[t], Term(Val(i[t]), Val(j[t]))]]
  /\ terms' = Upd(terms, t, Append(terms[t], <<Val(i[t]), Val(j[t])>>))
  /\ pc' = Upd(pc, t, "inner_inc")
  /\ UNCHANGED <<args, n, i, j, ret, exc, ub, calls, log>>

\* line 15: result += sin(i) * cos(j);
Body(t) ==
  /\ pc[t] = "body"
  /\ result' = Upd(result, t, DAdd[result[t], Term(Val(i[t]), Val(j[t]))])
  /\ terms' = Upd(terms, t, Append(terms[t], <<Val(i[t]), Val(j[t])>>))
  /\ pc' = Upd(pc, t, "inner_inc")
  /\ UNCHANGED <<args, n, i, j, ret, exc, ub, calls, log>>

\* x++ on an int: x + 1, and undefined when x is INT_MAX (any int may result)
Incr(x) == IF x < INT_MAX THEN {x + 1} ELSE INT_MIN..INT_MAX

\* line 14: j++
InnerInc(t) ==
  /\ pc[t] = "inner_inc"
  /\ \E v \in Incr(Val(j[t])) : j' = Upd(j, t, Some(v))
  /\ ub' = (ub \/ Val(j[t]) = INT_MAX)
  /\ pc' = Upd(pc, t, "inner_test")
  /\ UNCHANGED <<args, n, i, result, ret, exc, terms, calls, log>>

\* line 13: i++
OuterInc(t) ==
  /\ pc[t] = "outer_inc"
  /\ \E v \in Incr(Val(i[t])) : i' = Upd(i, t, Some(v))
  /\ ub' = (ub \/ Val(i[t]) = INT_MAX)
  /\ pc' = Upd(pc, t, "outer_test")
  /\ UNCHANGED <<args, n, j, result, ret, exc, terms, calls, log>>

\* line 19: return PyFloat_FromDouble(result);
Return(t) ==
  /\ pc[t] = "return"
  /\ ret' = Upd(ret, t, PyFloat_FromDouble(result[t]))
  /\ pc' = Upd(pc, t, "done")
  /\ UNCHANGED <<args, n, i, j, result, exc, terms, ub, calls, log>>

\* The host takes the outcome of the finished call; the activation is gone.
Collect(t) ==
  /\ pc[t] = "done"
  /\ log' = Upd(log, t, Append(log[t], [args |-> args[t], ret |-> ret[t], exc |-> exc[t]]))
  /\ pc' = Upd(pc, t, "idle")
  /\ UNCHANGED <<args, n, i, j, result, ret, exc, terms, ub, calls>>

\* one step of the code of compute_intensive on thread t
Step(t) ==
  \/ Parse(t)
  \/ DeclResult(t)
  \/ OuterInit(t)
  \/ OuterTest(t)
  \/ InnerInit(t)
  \/ InnerTest(t)
  \/ Body(t)
  \/ InnerInc(t)
  \/ OuterInc(t)
  \/ Return(t)

(***************************************************************************)
(* Spec: one call, any argument tuple, the whole int range.                *)
(***************************************************************************)
CallOnce == \E a \in ArgTuples : calls[1] = 0 /\ Call(1, a)

Next == CallOnce \/ Step(1) \/ Collect(1)

Spec == Init /\ [][Next]_vars

\* the code of a started call keeps running
SpecLive == Spec /\ WF_vars(Step(1))

(***************************************************************************)
(* SpecCalls: one thread makes up to MaxCalls calls, one after another.    *)
(***************************************************************************)
SeqArgTuples ==
  {<<PyLong(v)>> : v \in (-1)..MaxSeqN} \cup {<<PyUnicode>>, <<PyLong(INT_MAX + 1)>>}

CallAgain == \E a \in SeqArgTuples : calls[1] < MaxCalls /\ Call(1, a)

NextCalls == CallAgain \/ Step(1) \/ Collect(1)

SpecCalls == Init /\ [][NextCalls]_vars

(***************************************************************************)
(* SpecConc: every thread makes one call; the steps interleave freely.     *)
(***************************************************************************)
\* the two largest n, and a call that fails
ConcArgTuples ==
  {<<PyLong(v)>> : v \in (MaxConcN - 1)..MaxConcN} \cup {<<PyUnicode>>}

CallConc(t) == \E a \in ConcArgTuples : calls[t] = 0 /\ Call(t, a)

NextConc == \E t \in Threads : CallConc(t) \/ Step(t) \/ Collect(t)

SpecConc == Init /\ [][NextConc]_vars

(***************************************************************************)
(* Properties.                                                             *)
(***************************************************************************)
\* the (i, j) pairs of an n-by-n sweep, i-major and j-minor
Pairs(nv) ==
  IF nv <= 0 THEN <<>>
  ELSE [k \in 1..(nv * nv) |-> <<(k - 1) \div nv, (k - 1) % nv>>]

\* ((0.0 + sin(i1)*cos(j1)) + sin(i2)*cos(j2)) + ... over the first k pairs
RECURSIVE FoldLeft(_, _)
FoldLeft(seq, k) ==
  IF k = 0 THEN Zero(0)
  ELSE DAdd[FoldLeft(seq, k - 1), DMul[sin(seq[k][1]), cos(seq[k][2])]]

IsPrefix(s, p) == Len(s) <= Len(p) /\ s = SubSeq(p, 1, Len(s))

\* the argument tuple holds exactly one object and it is an integer
IsSingleInteger(a) == Len(a) = 1 /\ a[1].ob_type = "int"
InIntRange(v) == INT_MIN <= v /\ v <= INT_MAX

\* thread t's call is past its argument parsing, which succeeded
Parsed(t) == calls[t] > 0 /\ pc[t] # "parse" /\ exc[t] = "none"
\* thread t's call has just returned a float / has just failed
Returned(t) == pc[t] = "done" /\ exc[t] = "none"
Failed(t) == pc[t] = "done" /\ exc[t] # "none"

LoopPcs == {"outer_test", "inner_init", "inner_test", "body", "inner_inc", "outer_inc"}
InnerPcs == {"inner_test", "body", "inner_inc"}

\* C1: the terms are added for the pairs (0,0), (0,1), ..., (n-1,n-1) in
\* i-major, j-minor order, each pair once and nothing else, and the returned
\* value is the left-to-right sum of sin(i)*cos(j) over them from 0.0.
C1_TermsInOrder ==
  /\ pc[1] \in LoopPcs \cup {"return"} =>
       /\ IsPrefix(terms[1], Pairs(Val(n[1])))
       /\ result[1] = FoldLeft(terms[1], Len(terms[1]))
  /\ Returned(1) =>
       /\ terms[1] = Pairs(Val(n[1]))
       /\ \A a, b \in 0..(Val(n[1]) - 1) :
            Cardinality({k \in 1..Len(terms[1]) : terms[1][k] = <<a, b>>}) = 1
       /\ \A k \in 1..Len(terms[1]) :
            terms[1][k][1] \in 0..(Val(n[1]) - 1) /\ terms[1][k][2] \in 0..(Val(n[1]) - 1)
       /\ ret[1] = PyFloat(FoldLeft(terms[1], Len(terms[1])))
       /\ Val(n[1]) = 2 =>
            ret[1] = PyFloat(DAdd[DAdd[DAdd[DAdd[Zero(0),
                               DMul[sin(0), cos(0)]], DMul[sin(0), cos(1)]],
                               DMul[sin(1), cos(0)]], DMul[sin(1), cos(1)]])

C1_Witness ==
  /\ Returned(1) /\ Val(n[1]) = 2
  /\ terms[1] = <<<<0, 0>>, <<0, 1>>, <<1, 0>>, <<1, 1>>>>
  /\ ret[1].ob_fval.m # <<>>

\* C2: for n <= 0 no term is added, neither loop body is entered and the
\* call returns exactly +0.0.
C2_NonPositive ==
  (Parsed(1) /\ Val(n[1]) <= 0) =>
     /\ terms[1] = <<>>
     /\ pc[1] \notin {"inner_init", "inner_test", "body", "inner_inc", "outer_inc"}
     /\ Returned(1) => ret[1] = PyFloat(Zero(0))

C2_Witness == Returned(1) /\ Val(n[1]) = INT_MIN /\ ret[1] = PyFloat(Zero(0))

\* C3: when the argument tuple does not parse, the call returns NULL with the
\* exception set by the parser (the type error for a wrong type or a wrong
\* number of arguments) and result, i and j never get a value, no term is
\* added and no float is produced.
C3_ParseFailure ==
  (calls[1] > 0 /\ pc[1] # "parse" /\ ~PyArg_ParseTuple(args[1]).ok) =>
     /\ pc[1] \in {"done", "idle"}
     /\ ret[1] = NULL
     /\ exc[1] # "none"
     /\ ~IsSingleInteger(args[1]) => exc[1] = "TypeError"
     /\ n[1] = Uninit /\ result[1] = Uninit /\ i[1] = Uninit /\ j[1] = Uninit
     /\ terms[1] = <<>>

C3_Witness ==
  /\ Failed(1) /\ args[1] = <<PyUnicode>>
  /\ ret[1] = NULL /\ exc[1] = "TypeError" /\ result[1] = Uninit

C5_Deterministic ==
  \A a, b \in 1..Len(log[1]) :
     log[1][a].args = log[1][b].args =>
        log[1][a].ret = log[1][b].ret /\ log[1][a].exc = log[1][b].exc

C5_Witness ==
  /\ Len(log[1]) = 3
  /\ log[1][1].args = <<PyLong(2)>> /\ log[1][3].args = <<PyLong(2)>>
  /\ log[1][2].args = <<PyUnicode>>
  /\ log[1][1].ret.ob_fval.m # <<>>
  /\ log[1][3].ret = log[1][1].ret

\* thread t's own locals
Locals(t) == <<args[t], n[t], i[t], j[t], result[t], ret[t], exc[t], terms[t]>>

\* a step leaves the locals of every call that does not take it unchanged
OthersUntouched ==
  \A t \in Threads : pc'[t] = pc[t] => Locals(t)' = Locals(t)

\* C6: with the steps of concurrent calls interleaved, a step of one call
\* changes no other call's n, i, j or result, and each call adds its own
\* n*n terms and returns the value it returns when run alone.
C6_Isolation ==
  /\ [][OthersUntouched]_vars
  /\ [](\A t \in Threads :
          Returned(t) =>
             /\ terms[t] = Pairs(Val(n[t]))
             /\ ret[t] = PyFloat(FoldLeft(Pairs(Val(n[t])), Len(Pairs(Val(n[t]))))))

C6_Witness ==
  /\ pc[1] = "inner_inc" /\ pc[2] = "inner_inc"
  /\ Val(n[1]) = 2 /\ Val(n[2]) = 2
  /\ Len(terms[1]) = 2 /\ Len(terms[2]) = 3

\* C7: for n = 1 exactly one term, sin(0)*cos(0) = 0.0 * 1.0, is added and
\* the call returns 0.0.
C7_NEqualsOne ==
  (Parsed(1) /\ Val(n[1]) = 1) =>
     /\ IsPrefix(terms[1], <<<<0, 0>>>>)
     /\ pc[1] = "body" =>
           /\ sin(Val(i[1])) = Zero(0)
           /\ cos(Val(j[1])) = [s |-> 0, m |-> <<0, 0, 0, 1024>>, e |-> -52]
           /\ DMul[sin(Val(i[1])), cos(Val(j[1]))] = Zero(0)
     /\ Returned(1) => terms[1] = <<<<0, 0>>>> /\ ret[1] = PyFloat(Zero(0))

C7_Witness ==
  Returned(1) /\ Val(n[1]) = 1 /\ terms[1] = <<<<0, 0>>>> /\ ret[1] = PyFloat(Zero(0))

\* C8: once the argument has parsed, the call eventually returns a float,
\* after exactly n*n additions when n >= 0 and none when n < 0.
C8_Terminates ==
  (pc[1] = "decl_result")
    ~> (Returned(1) /\ Len(terms[1]) = (IF Val(n[1]) >= 0 THEN Val(n[1]) * Val(n[1]) ELSE 0))

C8_Witness ==
  Returned(1) /\ Val(n[1]) = INT_MAX /\ Len(terms[1]) = INT_MAX * INT_MAX

\* C9: n keeps the parsed value; for n > 0 the counters stay within 0..n,
\* the body runs only with 0 <= i < n and 0 <= j < n, and no increment
\* overflows the int range, also for n = INT_MAX.
C9_CountersInRange ==
  /\ ~ub
  /\ Parsed(1) => Val(n[1]) = args[1][1].ob_ival
  /\ (pc[1] \in LoopPcs \cup {"return"} /\ Val(n[1]) > 0) =>
        0 <= Val(i[1]) /\ Val(i[1]) <= Val(n[1])
  /\ (pc[1] \in InnerPcs \cup {"outer_inc"} /\ Val(n[1]) > 0) =>
        0 <= Val(j[1]) /\ Val(j[1]) <= Val(n[1])
  /\ pc[1] = "body" =>
        0 <= Val(i[1]) /\ Val(i[1]) < Val(n[1]) /\ 0 <= Val(j[1]) /\ Val(j[1]) < Val(n[1])
  /\ pc[1] = "inner_inc" => Val(j[1]) < INT_MAX
  /\ pc[1] = "outer_inc" => Val(i[1]) < INT_MAX

C9_Witness ==
  /\ pc[1] = "outer_test" /\ Val(n[1]) = INT_MAX
  /\ Val(i[1]) = INT_MAX /\ Val(j[1]) = INT_MAX /\ ~ub

====
